---- MODULE Spec2Model ----
(***************************************************************************)
(* Light descriptors of crates/bevy_pbr/src/light.rs and their conversion  *)
(* into shader uniforms.                                                   *)
(*                                                                         *)
(* f32 values are modelled as extended rationals <<n, d>> in lowest terms  *)
(* with d >= 0: d > 0 is the finite value n/d, <<1, 0>> is +infinity,      *)
(* <<-1, 0>> is -infinity and <<0, 0>> is NaN.  Arithmetic is exact: the   *)
(* rounding of f32 and the sign of zero are not represented.               *)
(***************************************************************************)
EXTENDS Integers, Sequences, FiniteSets, TLC

VARIABLES lights, given, last, aborted

vars == <<lights, given, last, aborted>>

(***************************************************************************)
(* f32 arithmetic                                                          *)
(***************************************************************************)
Abs(n) == IF n < 0 THEN -n ELSE n

Sign(n) == IF n < 0 THEN -1 ELSE IF n > 0 THEN 1 ELSE 0

RECURSIVE GCD(_, _)
GCD(a, b) == IF b = 0 THEN a ELSE GCD(b, a % b)

\* The value n/d in canonical form.
F(n, d) ==
    IF d = 0 THEN <<Sign(n), 0>>
    ELSE LET g == GCD(Abs(n), Abs(d))
         IN  <<(Sign(d) * n) \div g, Abs(d) \div g>>

IsNaN(a) == a[1] = 0 /\ a[2] = 0

IsFinite(a) == a[2] > 0

FNeg(a) == <<-a[1], a[2]>>

FMul(a, b) == F(a[1] * b[1], a[2] * b[2])

\* a / b; x / 0 is an infinity (NaN for x = 0), x / infinity is 0.
FDiv(a, b) ==
    IF b[1] < 0 THEN F(-(a[1] * b[2]), -(a[2] * b[1]))
    ELSE F(a[1] * b[2], a[2] * b[1])

FAdd(a, b) ==
    IF IsFinite(a) /\ IsFinite(b) THEN F(a[1] * b[2] + b[1] * a[2], a[2] * b[2])
    ELSE IF IsNaN(a) \/ IsNaN(b) THEN <<0, 0>>
    ELSE IF IsFinite(a) THEN b
    ELSE IF IsFinite(b) THEN a
    ELSE IF a = b THEN a ELSE <<0, 0>>

FSub(a, b) == FAdd(a, FNeg(b))

FAbs(a) == <<Abs(a[1]), a[2]>>

\* a <= b; every comparison with NaN is false.
FLe(a, b) ==
    IF IsNaN(a) \/ IsNaN(b) THEN FALSE
    ELSE IF IsFinite(a) /\ IsFinite(b) THEN a[1] * b[2] <= b[1] * a[2]
    ELSE IF IsFinite(a) THEN b[1] > 0
    ELSE IF IsFinite(b) THEN a[1] < 0
    ELSE a[1] <= b[1]

\* f32::log2 over the reals: a logarithm is kept as the number it is the
\* logarithm of, so that a difference of logarithms is a quotient and
\* 2^(log2 x) is x.
f32_log2(x) == [log2of |-> x]

LogSub(l, m) == [log2of |-> FDiv(l.log2of, m.log2of)]

\* f32::powf(2.0, l) for a logarithm l.
f32_powf2(l) == l.log2of

Zero == F(0, 1)

One == F(1, 1)

(***************************************************************************)
(* Collaborating types: Vec3, Color, GlobalTransform                       *)
(***************************************************************************)
Vec3_new(x, y, z) == <<x, y, z>>

length_squared(v) == FAdd(FAdd(FMul(v[1], v[1]), FMul(v[2], v[2])), FMul(v[3], v[3]))

\* Vec3::is_normalized: the squared length is 1 within the library's
\* threshold of 1e-6; it is not a test for a length of exactly 1.
is_normalized(v) == FLe(FAbs(FSub(length_squared(v), One)), F(1, 1000000))

\* Color::rgb: an opaque RGBA color.
Color_rgb(r, g, b) == <<r, g, b, One>>

\* Color * f32: every one of the four channels is scaled.
Color_mul(c, s) == <<FMul(c[1], s), FMul(c[2], s), FMul(c[3], s), FMul(c[4], s)>>

\* The translation of a GlobalTransform, which is modelled by it.
translation(global_transform) == global_transform

(***************************************************************************)
(* light.rs                                                                *)
(***************************************************************************)
None == [kind |-> "None"]

PointLight(color, intensity, range, radius) ==
    [kind |-> "PointLight", color |-> color, intensity |-> intensity,
     range |-> range, radius |-> radius]

PointLight_default ==
    PointLight(Color_rgb(One, One, One), F(200, 1), F(20, 1), Zero)

\* Faulty variants of PointLightUniform::new, which the properties below
\* must tell from it: w = 0 in pos; only the RGB channels premultiplied;
\* 1/range for 1/range^2.
PointLightUniform_new_w0(light, global_transform) ==
    LET t == translation(global_transform)
    IN  [pos |-> <<t[1], t[2], t[3], Zero>>,
         color |-> Color_mul(light.color, light.intensity),
         light_params |-> <<FDiv(One, FMul(light.range, light.range)),
                            light.radius, Zero, Zero>>]

PointLightUniform_new_rgb_only(light, global_transform) ==
    LET t == translation(global_transform)
        color == Color_mul(light.color, light.intensity)
    IN  [pos |-> <<t[1], t[2], t[3], One>>,
         color |-> <<color[1], color[2], color[3], light.color[4]>>,
         light_params |-> <<FDiv(One, FMul(light.range, light.range)),
                            light.radius, Zero, Zero>>]

PointLightUniform_new_unsquared(light, global_transform) ==
    LET t == translation(global_transform)
    IN  [pos |-> <<t[1], t[2], t[3], One>>,
         color |-> Color_mul(light.color, light.intensity),
         light_params |-> <<FDiv(One, light.range), light.radius, Zero, Zero>>]

PointLightUniform_new(light, global_transform) ==
    LET t == translation(global_transform)
        color == Color_mul(light.color, light.intensity)
    IN  [pos |-> <<t[1], t[2], t[3], One>>,
         color |-> color,
         light_params |-> <<FDiv(One, FMul(light.range, light.range)),
                            light.radius, Zero, Zero>>]

DirectionalLight(color, intensity, direction) ==
    [kind |-> "DirectionalLight", color |-> color, intensity |-> intensity,
     direction |-> direction]

\* The outcome of a call that may panic: the value it returned, or, for a
\* method on &mut self, the receiver as the call left it.
Ok(v) == [panic |-> FALSE, value |-> v]

Panic(v) == [panic |-> TRUE, value |-> v]

\* A faulty variant of new: the direction is stored negated.
DirectionalLight_new_negating(color, intensity, direction) ==
    IF ~is_normalized(direction) THEN Panic(None)
    ELSE Ok(DirectionalLight(color, intensity,
                             <<FNeg(direction[1]), FNeg(direction[2]), FNeg(direction[3])>>))

DirectionalLight_new(color, intensity, direction) ==
    IF ~is_normalized(direction) THEN Panic(None)
    ELSE Ok(DirectionalLight(color, intensity, direction))

\* A faulty variant of set_direction: the store precedes the assertion.
set_direction_store_first(self, direction) ==
    IF ~is_normalized(direction) THEN Panic([self EXCEPT !.direction = direction])
    ELSE Ok([self EXCEPT !.direction = direction])

set_direction(self, direction) ==
    IF ~is_normalized(direction) THEN Panic(self)
    ELSE Ok([self EXCEPT !.direction = direction])

get_direction(self) == self.direction

\* A faulty variant of default(): a direction of length sqrt(2).
DirectionalLight_default_tilted ==
    DirectionalLight(Color_rgb(One, One, One), F(100000, 1),
                     Vec3_new(Zero, F(-1, 1), F(-1, 1)))

DirectionalLight_default ==
    DirectionalLight(Color_rgb(One, One, One), F(100000, 1),
                     Vec3_new(Zero, F(-1, 1), Zero))

APERTURE == F(4, 1)

SHUTTER_SPEED == FDiv(One, F(250, 1))

SENSITIVITY == F(100, 1)

ev100 ==
    LogSub(f32_log2(FDiv(FMul(APERTURE, APERTURE), SHUTTER_SPEED)),
           f32_log2(FDiv(SENSITIVITY, F(100, 1))))

\* A faulty variant of exposure: the calibration factor 1.2 is left out.
exposure_uncalibrated == FDiv(One, f32_powf2(ev100))

exposure == FDiv(One, FMul(f32_powf2(ev100), F(12, 10)))

\* A faulty variant of DirectionalLightUniform::new: dir is not negated.
DirectionalLightUniform_new_unnegated(light) ==
    [dir |-> <<light.direction[1], light.direction[2], light.direction[3], Zero>>,
     color |-> Color_mul(light.color, FMul(light.intensity, exposure))]

DirectionalLightUniform_new(light) ==
    LET dir == <<FNeg(light.direction[1]), FNeg(light.direction[2]),
                 FNeg(light.direction[3]), Zero>>
        intensity == FMul(light.intensity, exposure)
        color == Color_mul(light.color, intensity)
    IN  [dir |-> dir, color |-> color]

AmbientLight(color, brightness) ==
    [kind |-> "AmbientLight", color |-> color, brightness |-> brightness]

\* A faulty variant of AmbientLight::default(): brightness 0.5.
AmbientLight_default_bright == AmbientLight(Color_rgb(One, One, One), F(5, 10))

AmbientLight_default == AmbientLight(Color_rgb(One, One, One), F(5, 100))

(***************************************************************************)
(* The callers' inputs                                                     *)
(***************************************************************************)
NumLights == 2

Lights == 1 .. NumLights

White == Color_rgb(One, One, One)

\* A translucent, non-grey color.
Amber == <<One, F(1, 2), Zero, F(1, 2)>>

Colors == {White, Amber}

Down == Vec3_new(Zero, F(-1, 1), Zero)

\* Squared length 1.00000025: not of length 1, inside the threshold.
NearUnit == Vec3_new(F(3, 5), F(1, 2000), F(-4, 5))

\* Squared length 2.
Diagonal == Vec3_new(One, One, Zero)

Directions == {Down, NearUnit, Diagonal}

Sunlight == F(100000, 1)

Intensities == {Sunlight, F(3, 1)}

\* The color and intensity arguments of DirectionalLight::new.
Appearances == {<<White, Sunlight>>, <<Amber, F(3, 1)>>}

UnitPointLight == PointLight(White, One, One, Zero)

PointLights ==
    { UnitPointLight,
      PointLight(Amber, F(3, 1), F(-2, 1), F(1, 2)),
      PointLight(White, F(3, 1), Zero, Zero) }

Translations == {Vec3_new(One, F(2, 1), F(3, 1)), Vec3_new(Zero, F(-7, 2), Zero)}

NoArg == <<>>

Call(op, target, arg, ret) == [op |-> op, target |-> target, arg |-> arg, ret |-> ret]

(***************************************************************************)
(* The state machine: a world of light components and the calls made on    *)
(* them.  lights[i] is the component of entity i; last is the most recent  *)
(* call with its argument and what it returned; aborted holds once a call  *)
(* has panicked, which ends the run.  given[i] is a history variable: the  *)
(* direction argument of the latest new or set_direction that returned on  *)
(* the light in lights[i], NoArg when there was none.                      *)
(***************************************************************************)
Init ==
    /\ lights = [i \in Lights |-> None]
    /\ given = [i \in Lights |-> NoArg]
    /\ last = Call("none", 0, NoArg, None)
    /\ aborted = FALSE

\* lights[i] = value, a light that no new or set_direction has acted on.
Assign(i, op, value) ==
    /\ ~aborted
    /\ lights' = [lights EXCEPT ![i] = value]
    /\ given' = [given EXCEPT ![i] = NoArg]
    /\ last' = Call(op, i, NoArg, value)
    /\ UNCHANGED aborted

\* lights[i] = PointLight::default()
Spawn_PointLight_default(i) == Assign(i, "PointLight::default", PointLight_default)

\* lights[i] = PointLight { color, intensity, range, radius }: every field
\* is public, so any light can be written down.
Spawn_PointLight(i, light) == Assign(i, "PointLight", light)

\* lights[i] = DirectionalLight::default()
Spawn_DirectionalLight_default(i) ==
    Assign(i, "DirectionalLight::default", DirectionalLight_default)

\* lights[i] = AmbientLight::default()
Spawn_AmbientLight_default(i) == Assign(i, "AmbientLight::default", AmbientLight_default)

\* lights[i] = DirectionalLight::new(color, intensity, direction); a panic
\* ends the run before the assignment.
Spawn_DirectionalLight_new(i, color, intensity, direction) ==
    /\ ~aborted
    /\ \E r \in {DirectionalLight_new(color, intensity, direction)} :
        /\ lights' = IF r.panic THEN lights ELSE [lights EXCEPT ![i] = r.value]
        /\ given' = IF r.panic THEN given ELSE [given EXCEPT ![i] = direction]
        /\ last' = Call("DirectionalLight::new", i, direction, r.value)
        /\ aborted' = r.panic

\* lights[i].set_direction(direction); a panic ends the run and leaves the
\* light as the call had it by then.
Call_set_direction(i, direction) ==
    /\ ~aborted
    /\ lights[i].kind = "DirectionalLight"
    /\ \E r \in {set_direction(lights[i], direction)} :
        /\ lights' = [lights EXCEPT ![i] = r.value]
        /\ given' = IF r.panic THEN given ELSE [given EXCEPT ![i] = direction]
        /\ last' = Call("set_direction", i, direction, None)
        /\ aborted' = r.panic

\* lights[i].get_direction()
Call_get_direction(i) ==
    /\ ~aborted
    /\ lights[i].kind = "DirectionalLight"
    /\ last' = Call("get_direction", i, NoArg, get_direction(lights[i]))
    /\ UNCHANGED <<lights, given, aborted>>

\* lights[i].color = color, on a directional light
Write_color(i, color) ==
    /\ ~aborted
    /\ lights[i].kind = "DirectionalLight"
    /\ lights' = [lights EXCEPT ![i].color = color]
    /\ last' = Call("color =", i, NoArg, None)
    /\ UNCHANGED <<given, aborted>>

\* lights[i].intensity = intensity, on a directional light
Write_intensity(i, intensity) ==
    /\ ~aborted
    /\ lights[i].kind = "DirectionalLight"
    /\ lights' = [lights EXCEPT ![i].intensity = intensity]
    /\ last' = Call("intensity =", i, NoArg, None)
    /\ UNCHANGED <<given, aborted>>

\* PointLightUniform::new(&lights[i], &global_transform)
Convert_PointLight(i, global_transform) ==
    /\ ~aborted
    /\ lights[i].kind = "PointLight"
    /\ last' = Call("PointLightUniform::new", i, translation(global_transform),
                    PointLightUniform_new(lights[i], global_transform))
    /\ UNCHANGED <<lights, given, aborted>>

\* A faulty variant of the conversion: the exposure-adjusted intensity is
\* written back into the light.
Convert_DirectionalLight_in_place(i) ==
    /\ ~aborted
    /\ lights[i].kind = "DirectionalLight"
    /\ last' = Call("DirectionalLightUniform::new", i, NoArg,
                    DirectionalLightUniform_new(lights[i]))
    /\ lights' = [lights EXCEPT ![i].intensity = FMul(@, exposure)]
    /\ UNCHANGED <<given, aborted>>

\* DirectionalLightUniform::new(&lights[i])
Convert_DirectionalLight(i) ==
    /\ ~aborted
    /\ lights[i].kind = "DirectionalLight"
    /\ last' = Call("DirectionalLightUniform::new", i, NoArg,
                    DirectionalLightUniform_new(lights[i]))
    /\ UNCHANGED <<lights, given, aborted>>

Next ==
    \/ \E i \in Lights : Spawn_PointLight_default(i)
    \/ \E i \in Lights, light \in PointLights : Spawn_PointLight(i, light)
    \/ \E i \in Lights : Spawn_DirectionalLight_default(i)
    \/ \E i \in Lights : Spawn_AmbientLight_default(i)
    \/ \E i \in Lights, a \in Appearances, direction \in Directions :
            Spawn_DirectionalLight_new(i, a[1], a[2], direction)
    \/ \E i \in Lights, direction \in Directions : Call_set_direction(i, direction)
    \/ \E i \in Lights : Call_get_direction(i)
    \/ \E i \in Lights, color \in Colors : Write_color(i, color)
    \/ \E i \in Lights, intensity \in Intensities : Write_intensity(i, intensity)
    \/ \E i \in Lights, t \in Translations : Convert_PointLight(i, t)
    \/ \E i \in Lights : Convert_DirectionalLight(i)

Spec == Init /\ [][Next]_vars

(***************************************************************************)
(* Properties                                                              *)
(***************************************************************************)
IsDirectional(i) == lights[i].kind = "DirectionalLight"

FLt(a, b) == FLe(a, b) /\ a # b

Channels == 1 .. 4

\* The light with its intensity scaled by k.
Scaled(light, k) == [light EXCEPT !.intensity = FMul(k, @)]

Scales == {Zero, F(1, 2), F(2, 1), F(-3, 1)}

\* C1: in every reachable state the stored direction of every directional
\* light passes is_normalized, the test of the constructor's assertion; this
\* covers the lights made by default(), which no assertion has seen, and
\* lights whose color and intensity fields were written.
C1_DirectionIsNormalized ==
    \A i \in Lights : IsDirectional(i) => is_normalized(get_direction(lights[i]))

\* A light made by default() whose fields were then written, beside a light
\* whose direction was set through set_direction or new.
C1_Witness ==
    \E i, j \in Lights :
        /\ IsDirectional(i) /\ given[i] = NoArg /\ lights[i].color = Amber
        /\ IsDirectional(j) /\ given[j] = NearUnit
        /\ last.op = "intensity ="

\* C2: a call of new or set_direction with a direction that is not
\* normalized panics; new yields no light, and the step of set_direction
\* leaves every light, the receiver's direction included, as it was.
C2_RejectsNonNormalized ==
    [][ (last'.op \in {"DirectionalLight::new", "set_direction"}
            /\ ~is_normalized(last'.arg))
        => (aborted' /\ lights' = lights /\ last'.ret = None) ]_vars

\* set_direction((1,1,0)) has panicked on an existing light.
C2_Witness ==
    /\ aborted
    /\ last.op = "set_direction"
    /\ last.arg = <<<<1, 1>>, <<1, 1>>, <<0, 1>>>>
    /\ IsDirectional(last.target)

\* C3: new and set_direction with a normalized direction d return, and the
\* light then holds exactly d; get_direction returns the argument of the
\* latest new or set_direction that returned on that light.
C3_DirectionStoredAsGiven ==
    /\ (last.op \in {"DirectionalLight::new", "set_direction"} /\ is_normalized(last.arg))
        => /\ ~aborted
           /\ IsDirectional(last.target)
           /\ get_direction(lights[last.target]) = last.arg
    /\ \A i \in Lights :
        (IsDirectional(i) /\ given[i] # NoArg) => get_direction(lights[i]) = given[i]
    /\ (last.op = "get_direction" /\ given[last.target] # NoArg)
        => last.ret = given[last.target]

\* get_direction has returned a direction that is not of length exactly 1,
\* as it was given.
C3_Witness ==
    /\ last.op = "get_direction"
    /\ given[last.target] = NearUnit
    /\ last.ret = <<<<3, 5>>, <<1, 2000>>, <<-4, 5>>>>

\* C4: for a point light of range > 0 at (x, y, z), PointLightUniform::new
\* returns pos = [x, y, z, 1], color = every channel times intensity and
\* light_params = [1/range^2, radius, 0, 0]; the white light of intensity 1,
\* range 1, radius 0 at (1, 2, 3) gives [1,2,3,1], [1,1,1,1], [1,0,0,0].
C4_PointLightUniform ==
    last.op = "PointLightUniform::new" =>
        LET l == lights[last.target]
            p == last.arg
            u == last.ret
        IN  /\ FLt(Zero, l.range) =>
                /\ u.pos = <<p[1], p[2], p[3], <<1, 1>>>>
                /\ \A j \in Channels : u.color[j] = FMul(l.color[j], l.intensity)
                /\ u.light_params
                     = <<FDiv(<<1, 1>>, FMul(l.range, l.range)), l.radius, <<0, 1>>, <<0, 1>>>>
            /\ ( /\ l = [kind |-> "PointLight",
                         color |-> <<<<1, 1>>, <<1, 1>>, <<1, 1>>, <<1, 1>>>>,
                         intensity |-> <<1, 1>>, range |-> <<1, 1>>, radius |-> <<0, 1>>]
                 /\ p = <<<<1, 1>>, <<2, 1>>, <<3, 1>>>> )
               => u = [pos |-> <<<<1, 1>>, <<2, 1>>, <<3, 1>>, <<1, 1>>>>,
                       color |-> <<<<1, 1>>, <<1, 1>>, <<1, 1>>, <<1, 1>>>>,
                       light_params |-> <<<<1, 1>>, <<0, 1>>, <<0, 1>>, <<0, 1>>>>]

\* The conversion of the unit white light at (1, 2, 3).
C4_Witness ==
    /\ last.op = "PointLightUniform::new"
    /\ lights[last.target] = UnitPointLight
    /\ last.arg = <<<<1, 1>>, <<2, 1>>, <<3, 1>>>>

\* C5: DirectionalLightUniform::new returns dir = [-dx, -dy, -dz, 0] for the
\* stored direction (dx, dy, dz); (0, -1, 0) gives [0, 1, 0, 0].
C5_DirectionNegated ==
    last.op = "DirectionalLightUniform::new" =>
        LET d == get_direction(lights[last.target])
            u == last.ret
        IN  /\ \A j \in 1 .. 3 : FAdd(u.dir[j], d[j]) = <<0, 1>>
            /\ u.dir[4] = <<0, 1>>
            /\ d = <<<<0, 1>>, <<-1, 1>>, <<0, 1>>>>
                => u.dir = <<<<0, 1>>, <<1, 1>>, <<0, 1>>, <<0, 1>>>>

\* The conversion of a light whose direction has three distinct components.
C5_Witness ==
    /\ last.op = "DirectionalLightUniform::new"
    /\ get_direction(lights[last.target]) = NearUnit
    /\ last.ret.dir = <<<<-3, 5>>, <<-1, 2000>>, <<4, 5>>, <<0, 1>>>>

\* C6: 2^ev100 is 4000 and exposure is 1/4800, computed from aperture 4,
\* shutter speed 1/250 and sensitivity 100; the color of every
\* DirectionalLightUniform is color x (intensity x 1/4800), the same factor
\* for every light and call.
C6_Exposure ==
    /\ APERTURE = <<4, 1>> /\ SHUTTER_SPEED = <<1, 250>> /\ SENSITIVITY = <<100, 1>>
    /\ f32_powf2(ev100) = <<4000, 1>>
    /\ exposure = <<1, 4800>>
    /\ last.op = "DirectionalLightUniform::new" =>
        LET l == lights[last.target]
        IN  \A j \in Channels :
                last.ret.color[j] = FMul(l.color[j], FMul(l.intensity, <<1, 4800>>))

\* Sunlight of intensity 100000 converted: white comes out as 125/6.
C6_Witness ==
    /\ last.op = "DirectionalLightUniform::new"
    /\ lights[last.target].intensity = <<100000, 1>>
    /\ last.ret.color[1] = <<125, 6>>

\* C7: premultiplication is one scalar multiply over all four channels and
\* is linear in intensity: with the intensity scaled by k, every channel of
\* the uniform's color, alpha included, is k times what it was, for point
\* and directional lights; a directional light's channels are the color's
\* times intensity x exposure.
C7_PremultiplicationLinear ==
    /\ last.op = "PointLightUniform::new" =>
        LET l == lights[last.target]
        IN  \A k \in Scales, j \in Channels :
                PointLightUniform_new(Scaled(l, k), last.arg).color[j]
                    = FMul(k, last.ret.color[j])
    /\ last.op = "DirectionalLightUniform::new" =>
        LET l == lights[last.target]
        IN  /\ \A j \in Channels :
                last.ret.color[j] = FMul(l.color[j], FMul(l.intensity, exposure))
            /\ \A k \in Scales, j \in Channels :
                DirectionalLightUniform_new(Scaled(l, k)).color[j]
                    = FMul(k, last.ret.color[j])

\* The conversion of a translucent point light of intensity 3: alpha 1/2
\* comes out as 3/2.
C7_Witness ==
    /\ last.op = "PointLightUniform::new"
    /\ lights[last.target].color[4] = <<1, 2>>
    /\ lights[last.target].intensity = <<3, 1>>
    /\ last.ret.color[4] = <<3, 2>>

\* C8: the defaults are white with intensity 200, range 20, radius 0 for a
\* point light; white with intensity 100000 and direction (0, -1, 0) for a
\* directional light; white with brightness 0.05 for the ambient light.
C8_Defaults ==
    LET white == <<<<1, 1>>, <<1, 1>>, <<1, 1>>, <<1, 1>>>>
    IN  /\ last.op = "PointLight::default" =>
            /\ last.ret = [kind |-> "PointLight", color |-> white,
                           intensity |-> <<200, 1>>, range |-> <<20, 1>>,
                           radius |-> <<0, 1>>]
            /\ lights[last.target] = last.ret
        /\ last.op = "DirectionalLight::default" =>
            /\ last.ret = [kind |-> "DirectionalLight", color |-> white,
                           intensity |-> <<100000, 1>>,
                           direction |-> <<<<0, 1>>, <<-1, 1>>, <<0, 1>>>>]
            /\ lights[last.target] = last.ret
        /\ last.op = "AmbientLight::default" =>
            /\ last.ret = [kind |-> "AmbientLight", color |-> white,
                           brightness |-> <<1, 20>>]
            /\ lights[last.target] = last.ret

\* AmbientLight::default() has returned beside a default point light.
C8_Witness ==
    /\ last.op = "AmbientLight::default"
    /\ \E i \in Lights : lights[i].kind = "PointLight" /\ lights[i].range = <<20, 1>>

\* The sign of a finite or infinite value.
Negative(a) == a[1] < 0

\* The light with its range negated.
Mirrored(light) == [light EXCEPT !.range = FNeg(@)]

\* C9 as stated: PointLightUniform::new never panics on the range, a range
\* of 0 gives a division by zero, and a negative range gives light_params.x
\* with the sign flipped against the range of the same magnitude.
C9_AsStated ==
    last.op = "PointLightUniform::new" =>
        LET l == lights[last.target]
            x == last.ret.light_params[1]
        IN  /\ ~aborted
            /\ l.range = <<0, 1>> => ~IsFinite(x)
            /\ Negative(l.range) =>
                x = FNeg(PointLightUniform_new(Mirrored(l), last.arg).light_params[1])

\* C9, amended: PointLightUniform::new never panics on the range; a range of
\* 0 gives light_params.x = 1/0 = +infinity; a negative range gives the same
\* positive light_params.x as the range of the same magnitude, since the
\* range is squared (-2 gives 1/4).
C9_RangeUnchecked ==
    last.op = "PointLightUniform::new" =>
        LET l == lights[last.target]
            x == last.ret.light_params[1]
        IN  /\ ~aborted
            /\ l.range = <<0, 1>> => x = <<1, 0>>
            /\ Negative(l.range) =>
                /\ x = PointLightUniform_new(Mirrored(l), last.arg).light_params[1]
                /\ FLt(<<0, 1>>, x)
            /\ l.range = <<-2, 1>> => x = <<1, 4>>

\* The conversion of a point light of range -2.
C9_Witness ==
    /\ last.op = "PointLightUniform::new"
    /\ lights[last.target].range = <<-2, 1>>
    /\ ~aborted

\* C10: a step of PointLightUniform::new or DirectionalLightUniform::new
\* never panics, leaves every light as it was, and returns the function of
\* its own light and argument alone, whatever the other lights hold and
\* whatever was converted before.
C10_ConversionsPure ==
    [][ (last'.op \in {"PointLightUniform::new", "DirectionalLightUniform::new"})
        => /\ ~aborted'
           /\ lights' = lights
           /\ last'.ret
                = IF last'.op = "PointLightUniform::new"
                  THEN PointLightUniform_new(lights[last'.target], last'.arg)
                  ELSE DirectionalLightUniform_new(lights[last'.target]) ]_vars

\* A directional light converted while the other entity holds a point light
\* of range 0.
C10_Witness ==
    /\ last.op = "DirectionalLightUniform::new"
    /\ \E i \in Lights :
        /\ i # last.target
        /\ lights[i].kind = "PointLight"
        /\ lights[i].range = <<0, 1>>
    /\ ~aborted

====
